---- MODULE Spec2Model ----
(***************************************************************************)
(* Model of the RSN/DIGI instrument connection of the port agent:          *)
(*   InstrumentRSNConnection  (port_agent/connection/                      *)
(*                             instrument_rsn_connection.cxx, lines 1-512) *)
(*   TCPCommSocket            (network/tcp_comm_socket.cxx)                *)
(* The connection owns a data socket and a command socket.  Bytes are      *)
(* modelled as their character codes, a string as a sequence of bytes.     *)
(***************************************************************************)
EXTENDS Integers, Sequences, FiniteSets, TLC

(***************************************************************************)
(* Bounds of the model.                                                    *)
(***************************************************************************)
\* limit of simultaneously open descriptors of the process (RLIMIT_NOFILE)
MaxOpenFds == 2
\* longest expected string / chunk drawn for the pure readCommandResponse runs
MaxLen == 2

(***************************************************************************)
(* Program constants.                                                      *)
(***************************************************************************)
\* uint32_t iTimeout = 30
PollBudget == 30
\* new char[1000]
BufSize == 1000
\* first descriptor handed out by socket(): 0, 1, 2 are the standard streams
FirstFd == 3

Hosts == {"", "digi1"}
Ports == {0, 4001, 4002}
Durations == {120}

Banner == <<79, 79, 73, 32, 45, 32, 68, 105, 103, 105, 32, 67, 111, 109, 109, 97, 110, 100, 32, 73, 110, 116, 101, 114, 102, 97, 99, 101, 13, 10, 116, 121, 112, 101, 32, 104, 101, 108, 112, 32, 102, 111, 114, 32, 99, 111, 109, 109, 97, 110, 100, 32, 105, 110, 102, 111, 114, 109, 97, 116, 105, 111, 110, 13, 10>>
TsCmd == <<116, 105, 109, 101, 115, 116, 97, 109, 112, 105, 110, 103, 32, 50, 13, 10>>
TsAck == <<83, 101, 116, 32, 84, 105, 109, 101, 115, 116, 97, 109, 112, 105, 110, 103, 58, 79, 110, 40, 98, 105, 110, 97, 114, 121, 41, 13, 10, 13, 10>>
BreakPrefix == <<98, 114, 101, 97, 107, 32>>
CRLF == <<13, 10>>
AckPrefix == <<83, 101, 110, 100, 105, 110, 103, 32, 83, 101, 114, 105, 97, 108, 32, 66, 114, 101, 97, 107, 32>>
AckSuffix == <<40, 109, 115, 41, 13, 10, 13, 10>>

(***************************************************************************)
(* Helpers.                                                                *)
(***************************************************************************)
Min(a, b) == IF a < b THEN a ELSE b

\* toString(iDuration) and operator<<(uint32_t): decimal digits
RECURSIVE toString(_)
toString(n) == IF n < 10 THEN <<48 + n>> ELSE toString(n \div 10) \o <<48 + (n % 10)>>

BreakCmd(d) == BreakPrefix \o toString(d) \o CRLF
BreakAck(d) == AckPrefix \o toString(d) \o AckSuffix

\* strncmp(a, b, n) == 0 : compares at most n bytes and stops at the first
\* difference or NUL
ByteAt(a, i) == IF i <= Len(a) THEN a[i] ELSE 0
StrncmpEq(a, b, n) ==
    LET stops == {i \in 1..n : ByteAt(a, i) # ByteAt(b, i) \/ ByteAt(a, i) = 0}
    IN \A i \in stops : (\A j \in stops : i <= j) => ByteAt(a, i) = ByteAt(b, i)

(***************************************************************************)
(* The peer.  Before each poll of the command socket the peer may deliver  *)
(* a chunk of bytes; a script is the sequence of these chunks, poll by     *)
(* poll (nothing arrives after the end of the script).  The end of the     *)
(* stream (peer closed) is the byte EOF in the stream.                     *)
(***************************************************************************)
EOF == -1
Pad(n) == [i \in 1..n |-> << >>]
ChunkAt(script, i) == IF i <= Len(script) THEN script[i] ELSE << >>

\* bytes pending in the kernel after the peer delivered a chunk
Arrive(rx, chunk) ==
    IF Len(rx) > 0 /\ rx[Len(rx)] = EOF THEN rx ELSE rx \o chunk

\* number of data bytes at the head of the stream, before any EOF
DataLen(rx) ==
    IF \E i \in 1..Len(rx) : rx[i] = EOF
    THEN (CHOOSE i \in 1..Len(rx) : rx[i] = EOF /\ \A j \in 1..(i - 1) : rx[j] # EOF) - 1
    ELSE Len(rx)

(***************************************************************************)
(* CommSocket::readData(buffer, size) on a socket whose m_bConnected is    *)
(* `connected` and whose descriptor has a live link iff `link`; rx is      *)
(* the stream pending in the kernel.  Returns the bytes read (0 when there *)
(* is no data), and marks the socket disconnected on end of stream or on   *)
(* a fatal error.                                                          *)
(***************************************************************************)
readData(connected, link, rx, size) ==
    IF ~connected
    THEN [n |-> 0, bytes |-> << >>, rx |-> rx, connected |-> FALSE]
    ELSE IF ~link
    THEN [n |-> 0, bytes |-> << >>, rx |-> << >>, connected |-> FALSE]
    ELSE IF rx = << >>
    THEN [n |-> 0, bytes |-> << >>, rx |-> rx, connected |-> TRUE]
    ELSE IF Head(rx) = EOF
    THEN [n |-> 0, bytes |-> << >>, rx |-> << >>, connected |-> FALSE]
    ELSE LET n == Min(size, DataLen(rx))
         IN [n |-> n, bytes |-> SubSeq(rx, 1, n),
             rx |-> SubSeq(rx, n + 1, Len(rx)), connected |-> TRUE]

(***************************************************************************)
(* InstrumentRSNConnection::readCommandResponse(sResponse).                *)
(* The loop state: bytes_read, total_bytes_read, iTimeout, the bytes       *)
(* written to pBuffer so far (buf), and whether a read was given room      *)
(* beyond the end of pBuffer and used it (overrun).  For the record, left  *)
(* is the value of iTimeout before the first poll and after each poll,     *)
(* reads the number of readData calls, and reach the furthest byte of      *)
(* pBuffer a readData call was allowed to write (offset plus size).        *)
(***************************************************************************)
Max(a, b) == IF a > b THEN a ELSE b

RECURSIVE ReadLoop(_, _, _)
ReadLoop(st, sResponse, script) ==
    IF st.bytes_read < Len(sResponse) /\ st.iTimeout # 0
    THEN LET poll == Len(st.left)
             r == readData(st.connected, st.link,
                           Arrive(st.rx, ChunkAt(script, poll)), Len(sResponse))
         IN ReadLoop([st EXCEPT !.bytes_read = r.n,
                                !.total = @ + r.n,
                                !.buf = @ \o r.bytes,
                                !.overrun = @ \/ (st.total + r.n > BufSize),
                                !.rx = r.rx,
                                !.connected = r.connected,
                                !.iTimeout = @ - 1,
                                !.left = Append(@, st.iTimeout - 1),
                                !.reads = @ + 1,
                                !.reach = Max(@, st.total + Len(sResponse))],
                     sResponse, script)
    ELSE st

\* the loop state at entry, with iTimeout = budget
LoopEntry(budget, connected, link, rx) ==
    [bytes_read |-> 0, total |-> 0, iTimeout |-> budget, buf |-> << >>,
     overrun |-> FALSE, rx |-> rx, connected |-> connected, link |-> link,
     left |-> <<budget>>, reads |-> 0, reach |-> 0]

\* what the call leaves behind when the loop ended in state st
LoopExit(st, sResponse) ==
    [ok |-> IF 0 >= st.iTimeout THEN FALSE
            ELSE StrncmpEq(sResponse, st.buf, Len(sResponse)),
     polls |-> Len(st.left) - 1, total |-> st.total,
     acc |-> st.buf, rx |-> st.rx, connected |-> st.connected,
     overrun |-> st.overrun, left |-> st.left, reads |-> st.reads,
     reach |-> st.reach]

ReadCommandResponseAnyLength(sResponse, connected, link, rx, script) ==
    LoopExit(ReadLoop(LoopEntry(PollBudget, connected, link, rx),
                      sResponse, script), sResponse)

readCommandResponse(sResponse, connected, link, rx, script) ==
    IF Len(sResponse) > 0
    THEN LoopExit(ReadLoop(LoopEntry(PollBudget, connected, link, rx),
                           sResponse, script), sResponse)
    ELSE [ok |-> FALSE, polls |-> 0, total |-> 0, acc |-> << >>, rx |-> rx,
          connected |-> connected, overrun |-> FALSE, left |-> << >>,
          reads |-> 0, reach |-> 0]

(***************************************************************************)
(* What the peer does while one response is awaited.                       *)
(***************************************************************************)
Kinds == {"full", "split", "lastpoll", "silent", "wrong", "eof"}

Script(kind, expected) ==
    CASE kind = "full" -> <<expected>>
      [] kind = "split" -> <<SubSeq(expected, 1, Len(expected) \div 2),
                             SubSeq(expected, Len(expected) \div 2 + 1, Len(expected))>>
      [] kind = "lastpoll" -> Pad(PollBudget - 1) \o <<expected>>
      [] kind = "silent" -> << >>
      [] kind = "wrong" -> <<[expected EXCEPT ![1] = IF @ = 88 THEN 89 ELSE 88]>>
      [] kind = "eof" -> <<<<EOF>>>>

(***************************************************************************)
(* State.                                                                  *)
(*   data, cmd : m_oDataSocket, m_oCommandSocket: hostname, port,          *)
(*               m_bConnected, m_pSocketFD, and whether the descriptor     *)
(*               has a live TCP link (kernel state)                        *)
(*   tsOn      : m_bTimestampBinaryOn                                      *)
(*   fds       : descriptors open in the process                           *)
(*   rx        : bytes pending on the command socket's descriptor          *)
(*   last      : the last call: its name, return value, exception          *)
(*   trace     : what the last call did, in order                          *)
(*   rdIn, rdOut : argument and result of a bare readCommandResponse run   *)
(*   pk        : a packet under construction: the arguments of the          *)
(*               constructor and the object it built                        *)
(*   pub       : a packet handed to the InstrumentCommandPublisher and      *)
(*               what the publisher did with it                             *)
(*   other     : a second InstrumentRSNConnection object, the one built or  *)
(*               assigned from this connection by the last call             *)
(***************************************************************************)
VARIABLES data, cmd, tsOn, fds, rx, last, trace, rdIn, rdOut, pk, pub, other

connVars == <<data, cmd, tsOn, fds, rx, last, trace>>
rdVars == <<rdIn, rdOut>>
vars == <<data, cmd, tsOn, fds, rx, last, trace, rdIn, rdOut, pk, pub, other>>

\* TCPCommSocket::TCPCommSocket()
NewSocket == [host |-> "", port |-> 0, connected |-> FALSE, fd |-> 0, link |-> FALSE]

\* the connection during a call: the fields, the trace, the pending exception
\* and the value returned by the last function that returned
M0 == [data |-> data, cmd |-> cmd, ts |-> tsOn, fds |-> fds, rx |-> rx,
       tr |-> << >>, exc |-> "none", ret |-> TRUE]

GetSock(m, w) == IF w = "data" THEN m.data ELSE m.cmd
PutSock(m, w, s) == IF w = "data" THEN [m EXCEPT !.data = s] ELSE [m EXCEPT !.cmd = s]
\* an event of the trace: e happened on socket w; up tells whether m_bConnected
\* of w was set when it began
Ev(e, w, what, ok, n, up) ==
    [e |-> e, sock |-> w, what |-> what, ok |-> ok, n |-> n, up |-> up]
Log(m, ev) == [m EXCEPT !.tr = Append(@, ev)]
Throw(m, e) == [m EXCEPT !.exc = e]
\* run F on every outcome that did not leave with an exception
Then(S, F(_)) == UNION {IF x.exc # "none" THEN {x} ELSE F(x) : x \in S}

\* socket(AF_INET, SOCK_STREAM, 0): the lowest free descriptor, -1 when the
\* descriptor table is full
OsSocket(open) ==
    IF Cardinality(open) >= MaxOpenFds THEN -1
    ELSE CHOOSE n \in FirstFd..(FirstFd + MaxOpenFds) :
            n \notin open /\ \A k \in FirstFd..(n - 1) : k \in open

\* what the network does to one initialize(): gethostbyname, and connect
\* returning 0, -1 with errno EINPROGRESS, or -1 with another errno
ConnectResults == {"ok", "inprogress", "refused"}
NetEnvs == [resolves : BOOLEAN, conn : ConnectResults]

\* CommSocket::blocking: the sockets of the connection are configured
\* non-blocking
blocking(s) == FALSE

IsConfiguredEither(s) == Len(s.host) > 0 \/ s.port > 0
\* TCPCommSocket::isConfigured
isConfigured(s) == Len(s.host) > 0 /\ s.port > 0

TCPInitializeMarksFirst(m, w, env) ==
    LET s == GetSock(m, w) IN
    IF ~isConfigured(s) THEN Throw(m, "SocketMissingConfig")
    ELSE
      LET fd == OsSocket(m.fds)
          m1 == Log(PutSock([m EXCEPT !.fds = IF fd > 0 THEN @ \cup {fd} ELSE @,
                                      !.rx = IF w = "cmd" THEN << >> ELSE @],
                            w, [s EXCEPT !.fd = fd, !.link = FALSE, !.connected = TRUE]),
                    Ev("socket", w, "", fd > 0, fd, s.connected))
      IN IF fd = 0 THEN Throw(m1, "SocketCreateFailure")
         ELSE IF ~env.resolves THEN Throw(m1, "SocketHostFailure")
         ELSE IF fd < 0 \/ env.conn = "refused"
         THEN Throw(Log(m1, Ev("connect", w, "error", FALSE, fd, s.connected)),
                    "SocketConnectFailure")
         ELSE LET m2 == Log(m1, Ev("connect", w,
                                   IF env.conn = "ok" THEN "" ELSE "EINPROGRESS",
                                   env.conn = "ok", fd, s.connected))
                  m3 == IF ~blocking(s)
                        THEN Log(m2, Ev("nonblock", w, "", TRUE, fd, s.connected))
                        ELSE m2
                  s3 == GetSock(m3, w)
              IN [PutSock(m3, w, [s3 EXCEPT !.link = (env.conn = "ok")])
                    EXCEPT !.ret = TRUE]
\* TCPCommSocket::initialize
TCPInitialize(m, w, env) ==
    LET s == GetSock(m, w) IN
    IF ~isConfigured(s) THEN Throw(m, "SocketMissingConfig")
    ELSE
      LET fd == OsSocket(m.fds)
          m1 == Log(PutSock([m EXCEPT !.fds = IF fd > 0 THEN @ \cup {fd} ELSE @,
                                      !.rx = IF w = "cmd" THEN << >> ELSE @],
                            w, [s EXCEPT !.fd = fd, !.link = FALSE]),
                    Ev("socket", w, "", fd > 0, fd, s.connected))
      IN IF fd = 0 THEN Throw(m1, "SocketCreateFailure")
         ELSE IF ~env.resolves THEN Throw(m1, "SocketHostFailure")
         ELSE IF fd < 0 \/ env.conn = "refused"
         THEN Throw(Log(m1, Ev("connect", w, "error", FALSE, fd, s.connected)),
                    "SocketConnectFailure")
         ELSE LET m2 == Log(m1, Ev("connect", w,
                                   IF env.conn = "ok" THEN "" ELSE "EINPROGRESS",
                                   env.conn = "ok", fd, s.connected))
                  m3 == IF ~blocking(s)
                        THEN Log(m2, Ev("nonblock", w, "", TRUE, fd, s.connected))
                        ELSE m2
                  s3 == GetSock(m3, w)
              IN [PutSock(m3, w, [s3 EXCEPT !.connected = TRUE,
                                            !.link = (env.conn = "ok")])
                    EXCEPT !.ret = TRUE]

\* CommSocket::disconnect
disconnectSocket(m, w) ==
    LET s == GetSock(m, w) IN
    IF s.connected
    THEN [Log(PutSock([m EXCEPT !.fds = @ \ {s.fd},
                                !.rx = IF w = "cmd" THEN << >> ELSE @],
                      w, [s EXCEPT !.connected = FALSE, !.fd = 0, !.link = FALSE]),
              Ev("close", w, "", TRUE, s.fd, TRUE))
            EXCEPT !.ret = TRUE]
    ELSE [m EXCEPT !.ret = TRUE]

\* a socket that readData / writeData found dead marks itself disconnected
Dropped(m, w) ==
    LET s == GetSock(m, w) IN
    PutSock([m EXCEPT !.fds = @ \ {s.fd}, !.rx = IF w = "cmd" THEN << >> ELSE @],
            w, [s EXCEPT !.connected = FALSE, !.fd = 0, !.link = FALSE])

WriteOutcomes == {"ok", "eagain", "fatal"}
CmdName(bytes) == IF bytes = TsCmd THEN "timestamping" ELSE "break"

\* CommSocket::writeData on the command socket
writeData(m, bytes, outcome) ==
    LET ev(ok) == Ev("write", "cmd", CmdName(bytes), ok, Len(bytes), m.cmd.connected) IN
    IF ~m.cmd.connected THEN [Log(m, ev(FALSE)) EXCEPT !.ret = FALSE]
    ELSE IF ~m.cmd.link \/ outcome = "fatal"
    THEN [Log(Dropped(m, "cmd"), ev(FALSE)) EXCEPT !.ret = FALSE]
    ELSE IF outcome = "eagain" THEN [Log(m, ev(FALSE)) EXCEPT !.ret = FALSE]
    ELSE [Log(m, ev(TRUE)) EXCEPT !.ret = TRUE]

CmdReadAgain(m, sResponse, script, what) ==
    LET r == readCommandResponse(sResponse, m.cmd.connected, m.cmd.link, m.rx, script)
        m1 == IF m.cmd.connected /\ ~r.connected THEN Dropped(m, "cmd")
              ELSE [m EXCEPT !.rx = r.rx]
        x == Log(m1, Ev("read", "cmd", what, r.ok, r.polls, m.cmd.connected))
        r2 == readCommandResponse(sResponse, x.cmd.connected, x.cmd.link, x.rx, << >>)
    IN IF r.ok THEN [x EXCEPT !.ret = TRUE]
       ELSE [Log(x, Ev("read", "cmd", what, r2.ok, r2.polls, x.cmd.connected))
                EXCEPT !.ret = r2.ok]
\* readCommandResponse(sResponse) run on the connection, the peer following script
CmdRead(m, sResponse, script, what) ==
    LET r == readCommandResponse(sResponse, m.cmd.connected, m.cmd.link, m.rx, script)
        m1 == IF m.cmd.connected /\ ~r.connected THEN Dropped(m, "cmd")
              ELSE [m EXCEPT !.rx = r.rx]
    IN [Log(m1, Ev("read", "cmd", what, r.ok, r.polls, m.cmd.connected)) EXCEPT !.ret = r.ok]

(***************************************************************************)
(* InstrumentRSNConnection.  Every operation maps the connection at the    *)
(* call to the set of connections it can leave behind, one for each        *)
(* behaviour of the network and of the peer.                               *)
(***************************************************************************)
SendCommandRetry(m, sCommand) ==
    UNION {LET w == writeData(m, sCommand, o) IN
           IF ~w.ret THEN {w}
           ELSE UNION {LET r == CmdRead(w, sCommand, Script(k, sCommand), "echo") IN
                       IF r.ret THEN {r}
                       ELSE LET w2 == writeData(r, sCommand, "ok") IN
                            IF ~w2.ret THEN {w2}
                            ELSE {CmdRead(w2, sCommand, Script(k2, sCommand), "echo")
                                    : k2 \in Kinds}
                       : k \in Kinds}
           : o \in WriteOutcomes}
\* InstrumentRSNConnection::sendCommand
sendCommand(m, sCommand) ==
    UNION {LET w == writeData(m, sCommand, o) IN
           IF ~w.ret THEN {w}
           ELSE {CmdRead(w, sCommand, Script(k, sCommand), "echo") : k \in Kinds}
           : o \in WriteOutcomes}

SetTimestampOnDemand(m) ==
    Then({TCPInitialize(m, "cmd", env) : env \in NetEnvs}, LAMBDA m1 :
         UNION {IF x.ret
                THEN {LET r == CmdRead(x, TsAck, Script(k, TsAck), "ack") IN
                      [disconnectSocket(r, "cmd") EXCEPT !.ret = r.ret] : k \in Kinds}
                ELSE {[disconnectSocket(x, "cmd") EXCEPT !.ret = FALSE]}
                : x \in sendCommand(m1, TsCmd)})
\* InstrumentRSNConnection::setTimestampBinaryOn
setTimestampBinaryOn(m) ==
    UNION {IF x.ret
           THEN {CmdRead(x, TsAck, Script(k, TsAck), "ack") : k \in Kinds}
           ELSE {x}
           : x \in sendCommand(m, TsCmd)}

InitializeCommandSocketEarlyClose(m) ==
    Then({TCPInitialize(m, "cmd", env) : env \in NetEnvs}, LAMBDA m1 :
         UNION {LET r == CmdRead(m1, Banner, Script(k, Banner), "banner") IN
                IF ~r.ret THEN {[r EXCEPT !.ts = FALSE]}
                ELSE {[x EXCEPT !.ts = x.ret]
                        : x \in setTimestampBinaryOn(
                                  [disconnectSocket(r, "cmd") EXCEPT !.ret = r.ret])}
                : k \in Kinds})
InitializeCommandSocketNoGate(m) ==
    Then({TCPInitialize(m, "cmd", env) : env \in NetEnvs}, LAMBDA m1 :
         UNION {LET r == CmdRead(m1, Banner, Script(k, Banner), "banner") IN
                {[x EXCEPT !.ts = r.ret /\ x.ret] : x \in setTimestampBinaryOn(r)}
                : k \in Kinds})
\* InstrumentRSNConnection::initializeCommandSocket
initializeCommandSocket(m) ==
    Then({TCPInitialize(m, "cmd", env) : env \in NetEnvs}, LAMBDA m1 :
         UNION {LET r == CmdRead(m1, Banner, Script(k, Banner), "banner") IN
                IF ~r.ret THEN {[r EXCEPT !.ts = FALSE]}
                ELSE {[x EXCEPT !.ts = x.ret] : x \in setTimestampBinaryOn(r)}
                : k \in Kinds})

\* InstrumentRSNConnection::initializeDataSocket
initializeDataSocket(m) == {TCPInitialize(m, "data", env) : env \in NetEnvs}

InitializeEachConfigured(m) ==
    LET S1 == IF isConfigured(m.data) /\ ~m.data.connected
              THEN initializeDataSocket(m) ELSE {m}
    IN Then(S1, LAMBDA m1 :
            IF isConfigured(m1.cmd) /\ ~m1.cmd.connected
            THEN Then(initializeCommandSocket(m1),
                      LAMBDA x : {disconnectSocket(x, "cmd")})
            ELSE {m1})
InitializeReconnectsData(m) ==
    LET bAllGood == isConfigured(m.data) /\ isConfigured(m.cmd)
        S1 == IF isConfigured(m.data) /\ bAllGood
              THEN initializeDataSocket(m) ELSE {m}
    IN Then(S1, LAMBDA m1 :
            IF isConfigured(m1.cmd) /\ bAllGood /\ ~m1.cmd.connected
            THEN Then(initializeCommandSocket(m1),
                      LAMBDA x : {disconnectSocket(x, "cmd")})
            ELSE {m1})
InitializeCommandFirst(m) ==
    LET bAllGood == isConfigured(m.data) /\ isConfigured(m.cmd)
        S1 == IF isConfigured(m.cmd) /\ bAllGood /\ ~m.cmd.connected
              THEN Then(initializeCommandSocket(m),
                        LAMBDA x : {disconnectSocket(x, "cmd")})
              ELSE {m}
    IN Then(S1, LAMBDA m1 :
            IF isConfigured(m1.data) /\ bAllGood /\ ~m1.data.connected
            THEN initializeDataSocket(m1) ELSE {m1})
\* InstrumentRSNConnection::initialize
initialize(m) ==
    LET bAllGood == isConfigured(m.data) /\ isConfigured(m.cmd)
        S1 == IF isConfigured(m.data) /\ bAllGood /\ ~m.data.connected
              THEN initializeDataSocket(m) ELSE {m}
    IN Then(S1, LAMBDA m1 :
            IF isConfigured(m1.cmd) /\ bAllGood /\ ~m1.cmd.connected
            THEN Then(initializeCommandSocket(m1),
                      LAMBDA x : {disconnectSocket(x, "cmd")})
            ELSE {m1})

SendBreakNoAck(m, iDuration) ==
    Then(initializeCommandSocket(m), LAMBDA m1 :
         {[disconnectSocket(x, "cmd") EXCEPT !.ret = x.ret]
            : x \in sendCommand(m1, BreakCmd(iDuration))})
SendBreakKeepOpen(m, iDuration) ==
    Then(initializeCommandSocket(m), LAMBDA m1 :
         UNION {IF x.ret
                THEN {CmdRead(x, BreakAck(iDuration), Script(k, BreakAck(iDuration)), "ack")
                        : k \in Kinds}
                ELSE {x}
                : x \in sendCommand(m1, BreakCmd(iDuration))})
\* InstrumentRSNConnection::sendBreak
sendBreak(m, iDuration) ==
    Then(initializeCommandSocket(m), LAMBDA m1 :
         UNION {IF x.ret
                THEN {LET r == CmdRead(x, BreakAck(iDuration),
                                       Script(k, BreakAck(iDuration)), "ack") IN
                      [disconnectSocket(r, "cmd") EXCEPT !.ret = r.ret] : k \in Kinds}
                ELSE {[disconnectSocket(x, "cmd") EXCEPT !.ret = FALSE]}
                : x \in sendCommand(m1, BreakCmd(iDuration))})

\* InstrumentRSNConnection::disconnect
disconnect(m) == {disconnectSocket(m, "data")}

\* setPort / setHostname followed by the re-initialization of the setters
SetPortOf(m, w, port) ==
    LET s == GetSock(m, w)
        oldPort == s.port
        m1 == PutSock(m, w, [s EXCEPT !.port = port % 65536])
    IN IF GetSock(m1, w).connected /\ GetSock(m1, w).port # oldPort
       THEN {TCPInitialize(m1, w, env) : env \in NetEnvs}
       ELSE {m1}
SetHostOf(m, w, host) ==
    LET s == GetSock(m, w)
        oldhost == s.host
        m1 == PutSock(m, w, [s EXCEPT !.host = host])
    IN IF GetSock(m1, w).connected /\ GetSock(m1, w).host # oldhost
       THEN {TCPInitialize(m1, w, env) : env \in NetEnvs}
       ELSE {m1}

SetDataPortAlways(m, port) ==
    LET m1 == PutSock(m, "data", [m.data EXCEPT !.port = port % 65536])
    IN IF isConfigured(m1.data)
       THEN {TCPInitialize(m1, "data", env) : env \in NetEnvs}
       ELSE {m1}
\* InstrumentRSNConnection::setDataPort
setDataPort(m, port) == SetPortOf(m, "data", port)

SetCommandPortOnData(m, port) ==
    LET m1 == PutSock(m, "cmd", [m.cmd EXCEPT !.port = port % 65536])
    IN IF m1.data.connected /\ m1.cmd.port # m.cmd.port
       THEN {disconnectSocket(m1, "data")}
       ELSE {m1}
\* InstrumentRSNConnection::setCommandPort
setCommandPort(m, port) == SetPortOf(m, "cmd", port)

\* InstrumentRSNConnection::setDataHost
setDataHost(m, host) == SetHostOf(m, "data", host)

\* InstrumentRSNConnection::setCommandHost
setCommandHost(m, host) == SetHostOf(m, "cmd", host)

(***************************************************************************)
(* Copies of the connection.  An InstrumentRSNConnection object is its two *)
(* sockets and m_bTimestampBinaryOn.                                       *)
(***************************************************************************)
\* InstrumentRSNConnection::InstrumentRSNConnection()
NewConnection == [data |-> NewSocket, cmd |-> NewSocket, ts |-> FALSE]
NoOther == [op |-> "none", obj |-> NewConnection, before |-> NewConnection]
\* the connection of the model as an object
This == [data |-> data, cmd |-> cmd, ts |-> tsOn]

TCPAssignWhole(this, rhs) == rhs
\* TCPCommSocket::operator=
TCPAssign(this, rhs) == [this EXCEPT !.host = rhs.host, !.port = rhs.port]

\* InstrumentRSNConnection::copy
RSNConnectionCopy(this, rhs) ==
    [data |-> TCPAssign(this.data, rhs.data),
     cmd |-> TCPAssign(this.cmd, rhs.cmd),
     ts |-> rhs.ts]
\* InstrumentRSNConnection::InstrumentRSNConnection(const InstrumentRSNConnection &)
RSNConnectionCopyConstruct(rhs) == RSNConnectionCopy(NewConnection, rhs)
\* InstrumentRSNConnection::operator=
RSNConnectionAssign(this, rhs) == RSNConnectionCopy(this, rhs)

\* a descriptor of the process that belongs to another connection object
OtherFd == FirstFd + MaxOpenFds + 1
\* the objects an assignment is made to: a new connection, and connections
\* that were configured and whose data socket was or was not connected
Targets ==
    {NewConnection}
      \cup {[data |-> [host |-> "digi2", port |-> 4003, connected |-> c,
                        fd |-> IF c THEN OtherFd ELSE 0, link |-> c],
              cmd |-> [NewSocket EXCEPT !.host = "digi2", !.port = 4004],
              ts |-> t] : c \in BOOLEAN, t \in BOOLEAN}

(***************************************************************************)
(* Actions: one call of a public operation of the connection.              *)
(***************************************************************************)
Idle == [op |-> "none", arg |-> 0, host |-> "", ret |-> TRUE, exc |-> "none"]

Commit(m, op, arg, host, ret) ==
    /\ data' = m.data
    /\ cmd' = m.cmd
    /\ tsOn' = m.ts
    /\ fds' = m.fds
    /\ rx' = m.rx
    /\ last' = [op |-> op, arg |-> arg, host |-> host, ret |-> ret, exc |-> m.exc]
    /\ trace' = m.tr
    /\ UNCHANGED rdVars
    /\ UNCHANGED <<pk, pub, other>>

CallSetDataPort ==
    /\ last.op = "none"
    /\ \E p \in Ports : \E m \in setDataPort(M0, p) : Commit(m, "setDataPort", p, "", TRUE)
CallSetDataHost ==
    /\ last.op = "none"
    /\ \E h \in Hosts : \E m \in setDataHost(M0, h) : Commit(m, "setDataHost", 0, h, TRUE)
CallSetCommandPort ==
    /\ last.op = "none"
    /\ \E p \in Ports : \E m \in setCommandPort(M0, p) : Commit(m, "setCommandPort", p, "", TRUE)
CallSetCommandHost ==
    /\ last.op = "none"
    /\ \E h \in Hosts : \E m \in setCommandHost(M0, h) : Commit(m, "setCommandHost", 0, h, TRUE)
CallInitialize ==
    /\ last.op = "none"
    /\ \E m \in initialize(M0) : Commit(m, "initialize", 0, "", TRUE)
CallDisconnect ==
    /\ last.op = "none"
    /\ \E m \in disconnect(M0) : Commit(m, "disconnect", 0, "", m.ret)
CallSendBreak ==
    /\ last.op = "none"
    /\ \E d \in Durations : \E m \in sendBreak(M0, d) : Commit(m, "sendBreak", d, "", m.exc = "none" /\ m.ret)
CallSetTimestampBinaryOn ==
    /\ last.op = "none"
    /\ \E m \in setTimestampBinaryOn(M0) : Commit(m, "setTimestampBinaryOn", 0, "", m.exc = "none" /\ m.ret)
CallSendCommand ==
    /\ last.op = "none"
    /\ \E d \in Durations : \E m \in sendCommand(M0, BreakCmd(d)) : Commit(m, "sendCommand", d, "", m.exc = "none" /\ m.ret)
CallInitializeCommandSocket ==
    /\ last.op = "none"
    /\ \E m \in initializeCommandSocket(M0) : Commit(m, "initializeCommandSocket", 0, "", TRUE)
CallInitializeDataSocket ==
    /\ last.op = "none"
    /\ \E m \in initializeDataSocket(M0) : Commit(m, "initializeDataSocket", 0, "", TRUE)

\* InstrumentRSNConnection other(*this)
CallCopyConstruct ==
    /\ last.op = "none"
    /\ other' = [op |-> "construct", obj |-> RSNConnectionCopyConstruct(This),
                 before |-> NewConnection]
    /\ last' = [Idle EXCEPT !.op = "copyConstruct"]
    /\ UNCHANGED <<data, cmd, tsOn, fds, rx, trace, rdIn, rdOut, pk, pub>>
\* other = *this
CallAssign ==
    /\ last.op = "none"
    /\ \E t \in Targets :
          other' = [op |-> "assign", obj |-> RSNConnectionAssign(t, This), before |-> t]
    /\ last' = [Idle EXCEPT !.op = "assign"]
    /\ UNCHANGED <<data, cmd, tsOn, fds, rx, trace, rdIn, rdOut, pk, pub>>

\* the caller has looked at the result of the call and goes on
Return ==
    /\ last.op # "none"
    /\ last' = Idle
    /\ trace' = << >>
    /\ other' = NoOther
    /\ UNCHANGED <<data, cmd, tsOn, fds, rx, rdIn, rdOut, pk, pub>>

\* RSNPacket::RSNPacket(): m_tPacketType = UNKNOWN, m_iPacketSize = 0,
\* m_pPacket = NULL
\* baseType, baseSize are the members of the same names that class Packet
\* declares and Packet::Packet() sets; RSNPacket declares its own
NullPacket == [exc |-> "none", type |-> 0, size |-> 0, null |-> TRUE, buf |-> << >>,
               baseType |-> 0, baseSize |-> 0]
NoAscii == [label |-> "", type |-> "", time |-> FALSE, body |-> << >>, eol |-> << >>]
NoView == [done |-> FALSE, type |-> 0, size |-> 0]
NoName == [done |-> FALSE, arg |-> 0, name |-> ""]
NoPacket == [typ |-> "UNKNOWN", blob |-> << >>, done |-> FALSE, obj |-> NullPacket,
             cpy |-> NullPacket, op |-> "none", rsnAscii |-> NoAscii,
             baseAscii |-> NoAscii, view |-> NoView, tts |-> NoName]
NoPublish == [type |-> 0, bytes |-> << >>, sink |-> "ok", done |-> FALSE,
              ret |-> TRUE, writes |-> << >>]
NoRead == [expected |-> << >>, script |-> << >>]
NotRun == [done |-> FALSE, ok |-> FALSE, polls |-> 0, total |-> 0, acc |-> << >>,
           overrun |-> FALSE, left |-> << >>, reads |-> 0, reach |-> 0,
           crashed |-> FALSE]

\* InstrumentRSNConnection::InstrumentRSNConnection()
Init ==
    /\ data = NewSocket
    /\ cmd = NewSocket
    /\ tsOn = FALSE
    /\ fds = {}
    /\ rx = << >>
    /\ last = Idle
    /\ trace = << >>
    /\ other = NoOther
    /\ rdIn = NoRead
    /\ rdOut = NotRun
    /\ pk = NoPacket
    /\ pub = NoPublish

Next ==
    \/ CallSetDataPort
    \/ CallSetDataHost
    \/ CallSetCommandPort
    \/ CallSetCommandHost
    \/ CallInitialize
    \/ CallDisconnect
    \/ CallSendBreak
    \/ CallSetTimestampBinaryOn
    \/ CallSendCommand
    \/ CallInitializeCommandSocket
    \/ CallInitializeDataSocket
    \/ Return

Spec == Init /\ [][Next]_vars

\* the calls the port agent makes on its connection: configuration,
\* initialize, sendBreak and disconnect
NextAgent ==
    \/ CallSetDataPort
    \/ CallSetDataHost
    \/ CallSetCommandPort
    \/ CallSetCommandHost
    \/ CallInitialize
    \/ CallDisconnect
    \/ CallSendBreak
    \/ Return

SpecAgent == Init /\ [][NextAgent]_vars

\* the same calls, and copies of the connection taken between them
NextCopy ==
    \/ CallSetDataPort
    \/ CallSetDataHost
    \/ CallSetCommandPort
    \/ CallSetCommandHost
    \/ CallInitialize
    \/ CallDisconnect
    \/ CallSendBreak
    \/ CallCopyConstruct
    \/ CallAssign
    \/ Return

SpecCopy == Init /\ [][NextCopy]_vars

(***************************************************************************)
(* readCommandResponse on its own: the expected string and the script of   *)
(* the peer are drawn at the start, one step applies the function to a     *)
(* connected command socket with nothing pending.  Beside the short        *)
(* strings, the responses the connection waits for are tried against a     *)
(* peer that keeps sending all but the last byte of the response.  A call  *)
(* that wrote beyond pBuffer has undefined behaviour: it returns as if     *)
(* nothing had happened, or the process dies in it (crashed).              *)
(***************************************************************************)
Alphabet == {97, 98}
Strings(n) == UNION {[1..k -> Alphabet] : k \in 0..n}
Delays == {0, 1, PollBudget - 2, PollBudget - 1, PollBudget}
Gaps == {0, 1}
ReadScripts ==
    {Pad(d) \o <<c1>> \o Pad(g) \o <<c2>> :
        d \in Delays, g \in Gaps, c1 \in Strings(MaxLen),
        c2 \in Strings(MaxLen) \cup {<<EOF>>}}

Responses ==
    {Banner, TsCmd, TsAck} \cup {BreakCmd(d) : d \in Durations}
        \cup {BreakAck(d) : d \in Durations}
Flood(e) == [i \in 1..PollBudget |-> SubSeq(e, 1, Len(e) - 1)]

InitRead ==
    /\ data = NewSocket
    /\ cmd = NewSocket
    /\ tsOn = FALSE
    /\ fds = {}
    /\ rx = << >>
    /\ last = Idle
    /\ trace = << >>
    /\ other = NoOther
    /\ rdIn \in [expected : Strings(MaxLen), script : ReadScripts]
               \cup {[expected |-> e, script |-> Flood(e)] : e \in Responses}
    /\ rdOut = NotRun
    /\ pk = NoPacket
    /\ pub = NoPublish

ApplyRead ==
    /\ ~rdOut.done
    /\ LET r == readCommandResponse(rdIn.expected, TRUE, TRUE, << >>, rdIn.script)
       IN \E c \in (IF r.overrun THEN BOOLEAN ELSE {FALSE}) :
            rdOut' = [done |-> TRUE, ok |-> r.ok, polls |-> r.polls, total |-> r.total,
                      acc |-> r.acc, overrun |-> r.overrun, left |-> r.left,
                      reads |-> r.reads, reach |-> r.reach, crashed |-> c]
    /\ UNCHANGED <<data, cmd, tsOn, fds, rx, last, trace, rdIn, pk, pub, other>>

SpecRead == InitRead /\ [][ApplyRead]_vars

(***************************************************************************)
(* Packets.  enum packet::PacketType in the order of its declaration; the  *)
(* value of an enumerator is its position, counted from 0.                 *)
(***************************************************************************)
HEADER_SIZE == 16
PacketTypeNames ==
    <<"UNKNOWN", "DATA_FROM_INSTRUMENT", "DATA_FROM_RSN", "DATA_FROM_DRIVER",
      "PORT_AGENT_COMMAND", "PORT_AGENT_STATUS", "PORT_AGENT_FAULT",
      "INSTRUMENT_COMMAND", "PORT_AGENT_HEARTBEAT">>
PacketType(name) ==
    (CHOOSE i \in DOMAIN PacketTypeNames : PacketTypeNames[i] = name) - 1

RSNPacketAnyType(packetType, pPacket, iPacketSize) ==
    [NullPacket EXCEPT !.type = packetType, !.size = iPacketSize % 65536,
                       !.null = FALSE,
                       !.buf = SubSeq(pPacket, 1, iPacketSize % 65536)]
\* RSNPacket::RSNPacket(packetType, pPacket, iPacketSize)
RSNPacket(packetType, pPacket, iPacketSize) ==
    IF 0 = packetType
    THEN [NullPacket EXCEPT !.exc = "PacketParamOutOfRange"]
    ELSE [NullPacket EXCEPT !.type = packetType, !.size = iPacketSize % 65536,
                            !.null = FALSE,
                            !.buf = SubSeq(pPacket, 1, iPacketSize % 65536)]

\* RSNPacket::packetSize, RSNPacket::payloadSize (uint16_t), RSNPacket::packet
packetSize(o) == o.size
payloadSize(o) == (o.size - HEADER_SIZE) % 65536
packet(o) == IF o.null THEN << >> ELSE o.buf

\* RSNPacket::copy
copy(this, rhs) ==
    IF ~rhs.null
    THEN [this EXCEPT !.type = rhs.type, !.size = rhs.size, !.null = FALSE,
                      !.buf = SubSeq(rhs.buf, 1, rhs.size)]
    ELSE [this EXCEPT !.type = rhs.type, !.size = rhs.size, !.null = TRUE,
                      !.buf = << >>]
\* RSNPacket::RSNPacket(const RSNPacket &rhs)
RSNPacketCopy(rhs) == copy(NullPacket, rhs)
\* RSNPacket::operator=: the buffer of this is deleted first; in a
\* self-assignment rhs is this object, whose buffer is then gone
assign(this, rhs, self) ==
    LET t == [this EXCEPT !.null = TRUE, !.buf = << >>]
    IN copy(t, IF self THEN t ELSE rhs)

\* Packet::packetType and Packet::packetSize, the accessors a holder of a
\* Packet* or Packet& calls: not virtual, they read the members of class
\* Packet
packetType(o) == o.baseType
PacketPacketSize(o) == o.baseSize

\* Packet::typeToString
TypeToStringCases ==
    {"UNKNOWN", "DATA_FROM_INSTRUMENT", "DATA_FROM_DRIVER", "PORT_AGENT_COMMAND",
     "PORT_AGENT_STATUS", "PORT_AGENT_FAULT", "INSTRUMENT_COMMAND",
     "PORT_AGENT_HEARTBEAT"}
typeToString(type) ==
    IF type + 1 \in DOMAIN PacketTypeNames /\ PacketTypeNames[type + 1] \in TypeToStringCases
    THEN PacketTypeNames[type + 1]
    ELSE "OUT_OF_RANGE"

\* Packet::asciiPacketLabel, Packet::asciiPacketType: not virtual, they read
\* the members of class Packet
asciiPacketLabel(o) == "packet"
asciiPacketType(o) == typeToString(o.baseType)

\* the text of an ASCII projection: '<' label ' type="' type '"', then
\* ' time="..."' when time is set, '>', the body bytes, '</' label '>' and
\* the bytes of eol
\* RSNPacket::asAscii
RSNasAscii(o) ==
    [label |-> asciiPacketLabel(o), type |-> asciiPacketType(o), time |-> FALSE,
     body |-> IF o.null THEN << >> ELSE SubSeq(o.buf, HEADER_SIZE + 1, packetSize(o)),
     eol |-> <<10, 13>>]
\* Packet::asAscii: packet() is virtual, packetSize() is Packet::packetSize
asAscii(o) ==
    [label |-> asciiPacketLabel(o), type |-> asciiPacketType(o), time |-> TRUE,
     body |-> IF o.null THEN << >> ELSE SubSeq(o.buf, HEADER_SIZE + 1, o.baseSize),
     eol |-> <<10, 13>>]

\* the blobs handed to the constructor: a header of h bytes and a payload
HeaderLens == {0, HEADER_SIZE - 1, HEADER_SIZE}
Frame(h, payload) == [i \in 1..h |-> 0] \o payload
Blobs == {Frame(h, p) : h \in HeaderLens, p \in Strings(MaxLen)}

InitPacket ==
    /\ data = NewSocket
    /\ cmd = NewSocket
    /\ tsOn = FALSE
    /\ fds = {}
    /\ rx = << >>
    /\ last = Idle
    /\ trace = << >>
    /\ other = NoOther
    /\ rdIn = NoRead
    /\ rdOut = NotRun
    /\ pub = NoPublish
    /\ pk \in [typ : {PacketTypeNames[i] : i \in DOMAIN PacketTypeNames},
                blob : Blobs, done : {FALSE}, obj : {NullPacket}, cpy : {NullPacket},
                op : {"none"}, rsnAscii : {NoAscii}, baseAscii : {NoAscii},
                view : {NoView}, tts : {NoName}]

pkRest == <<data, cmd, tsOn, fds, rx, last, trace, rdIn, rdOut, pub, other>>
Built == pk.done /\ pk.obj.exc = "none"

NewRSNPacket ==
    /\ ~pk.done
    /\ pk' = [pk EXCEPT !.done = TRUE, !.op = "new",
                        !.obj = RSNPacket(PacketType(pk.typ), pk.blob, Len(pk.blob))]
    /\ UNCHANGED pkRest

\* RSNPacket cpy(obj)
CopyConstruct ==
    /\ Built /\ pk.op = "new"
    /\ pk' = [pk EXCEPT !.op = "copy", !.cpy = RSNPacketCopy(pk.obj)]
    /\ UNCHANGED pkRest

\* cpy = obj
AssignCopy ==
    /\ Built /\ pk.op \in {"new", "copy"}
    /\ pk' = [pk EXCEPT !.op = "assign", !.cpy = assign(pk.cpy, pk.obj, FALSE)]
    /\ UNCHANGED pkRest

\* obj = obj
AssignSelf ==
    /\ Built /\ pk.op \in {"new", "copy", "assign"}
    /\ pk' = [pk EXCEPT !.op = "selfassign", !.obj = assign(pk.obj, pk.obj, TRUE)]
    /\ UNCHANGED pkRest

\* obj.asAscii() called on the RSNPacket and through a Packet reference
CallAsAscii ==
    /\ Built /\ pk.op \in {"new", "copy", "assign"}
    /\ pk' = [pk EXCEPT !.op = "asAscii", !.rsnAscii = RSNasAscii(pk.obj),
                        !.baseAscii = asAscii(pk.obj)]
    /\ UNCHANGED pkRest

\* Packet *p = &obj; p->packetType(); p->packetSize()
ViewAsPacket ==
    /\ Built /\ pk.op \in {"new", "copy", "assign"}
    /\ pk' = [pk EXCEPT !.op = "view",
                        !.view = [done |-> TRUE, type |-> packetType(pk.obj),
                                  size |-> PacketPacketSize(pk.obj)]]
    /\ UNCHANGED pkRest

\* typeToString(v) for every enumerator and for the first value beyond them
CallTypeToString ==
    /\ ~pk.done /\ ~pk.tts.done
    /\ \E v \in 0..Len(PacketTypeNames) :
          pk' = [pk EXCEPT !.tts = [done |-> TRUE, arg |-> v, name |-> typeToString(v)]]
    /\ UNCHANGED pkRest

NextPacket ==
    \/ NewRSNPacket
    \/ CopyConstruct
    \/ AssignCopy
    \/ AssignSelf
    \/ CallAsAscii
    \/ ViewAsPacket
    \/ CallTypeToString

SpecPacket == InitPacket /\ [][NextPacket]_vars

(***************************************************************************)
(* InstrumentCommandPublisher.  publish() finds the handler of the type    *)
(* that packet->packetType() reports; the publisher has a handler for      *)
(* INSTRUMENT_COMMAND only, every other type is accepted without I/O.      *)
(* p is the publisher being run: the packet, the state of the sink and     *)
(* the writes made so far.                                                 *)
(***************************************************************************)
SinkStates == {"ok", "fail"}

\* FilePointerPublisher::logPacket: one write of the packet to the sink
logPacket(p) ==
    [p EXCEPT !.writes = Append(@, p.bytes), !.ret = (p.sink = "ok")]

\* InstrumentCommandPublisher::handleInstrumentCommand
handleInstrumentCommand(p) == logPacket(p)

PublishEveryType(p) == handleInstrumentCommand(p)
\* Publisher::publish
publish(p) ==
    IF p.type = PacketType("INSTRUMENT_COMMAND")
    THEN handleInstrumentCommand(p)
    ELSE [p EXCEPT !.ret = TRUE]

InitPublish ==
    /\ data = NewSocket
    /\ cmd = NewSocket
    /\ tsOn = FALSE
    /\ fds = {}
    /\ rx = << >>
    /\ last = Idle
    /\ trace = << >>
    /\ other = NoOther
    /\ rdIn = NoRead
    /\ rdOut = NotRun
    /\ pk = NoPacket
    /\ pub \in [type : {PacketType(PacketTypeNames[i]) : i \in DOMAIN PacketTypeNames},
                 bytes : Blobs, sink : SinkStates, done : {FALSE}, ret : {TRUE},
                 writes : {<< >>}]

CallPublish ==
    /\ ~pub.done
    /\ pub' = [publish(pub) EXCEPT !.done = TRUE]
    /\ UNCHANGED <<data, cmd, tsOn, fds, rx, last, trace, rdIn, rdOut, pk, other>>

SpecPublish == InitPublish /\ [][CallPublish]_vars

(***************************************************************************)
(* Accessors of the connection.                                            *)
(***************************************************************************)
ConnectedBoth == data.connected /\ cmd.connected
\* InstrumentRSNConnection::connected
connected == data.connected
\* InstrumentRSNConnection::dataConnected
dataConnected == data.connected
\* InstrumentRSNConnection::commandConnected
commandConnected == cmd.connected
\* InstrumentRSNConnection::dataConfigured
dataConfigured == isConfigured(data)
\* InstrumentRSNConnection::commandConfigured
commandConfigured == isConfigured(cmd)
\* InstrumentRSNConnection::dataInitialized
dataInitialized == dataConfigured
\* InstrumentRSNConnection::commandInitialized
commandInitialized == commandConfigured
\* InstrumentRSNConnection::isTimestampBinaryOn
isTimestampBinaryOn == tsOn

(***************************************************************************)
(* Reading the trace of the last call.                                     *)
(***************************************************************************)
Is(ev, e, w) == ev.e = e /\ ev.sock = w
IsStep(ev, e, what) == ev.e = e /\ ev.sock = "cmd" /\ ev.what = what
Happened(e, w) == \E i \in DOMAIN trace : Is(trace[i], e, w)
Matched(what) == \E i \in DOMAIN trace : IsStep(trace[i], "read", what) /\ trace[i].ok
HostAndPortSet(s) == s.host # "" /\ s.port > 0
DialogueSteps == {"read", "write"}
CommandOps == {"sendBreak", "setTimestampBinaryOn", "sendCommand",
               "initializeCommandSocket", "setCommandPort", "setCommandHost"}

\* the polls of the command socket made by the calls of tr
RECURSIVE Polls(_)
Polls(tr) ==
    IF tr = << >> THEN 0
    ELSE (IF Is(Head(tr), "read", "cmd") THEN Head(tr).n ELSE 0) + Polls(Tail(tr))
\* the positions of tr where a response was awaited
Waits(tr) == {i \in DOMAIN tr : Is(tr[i], "read", "cmd")}
\* responses awaited by one call: banner, echo and acknowledgement of
\* 'timestamping 2'; sendBreak adds the echo and acknowledgement of the break
MaxWaits(op) == IF op = "sendBreak" THEN 5 ELSE 3

\* the dialogue of command c took place in the last call: c was written,
\* then its echo was matched, then its acknowledgement was matched
Dialogue(c) ==
    \E i \in DOMAIN trace : \E j \in DOMAIN trace : \E k \in DOMAIN trace :
        /\ i < j /\ j < k
        /\ IsStep(trace[i], "write", c) /\ trace[i].ok
        /\ IsStep(trace[j], "read", "echo") /\ trace[j].ok
        /\ IsStep(trace[k], "read", "ack") /\ trace[k].ok
        /\ \A l \in (i + 1)..k : ~Is(trace[l], "write", "cmd")
\* initializeCommandSocket() succeeded in the last call
CommandSocketInitialized == Matched("banner") /\ Dialogue("timestamping")

\* the last call ran initializeCommandSocket(): sendBreak() and
\* initializeCommandSocket() always do, initialize() does when it went on to
\* the command socket
RanInitializeCommandSocket ==
    \/ last.op \in {"initializeCommandSocket", "sendBreak"}
    \/ last.op = "initialize" /\ \E i \in DOMAIN trace : trace[i].sock = "cmd"

\* the last call did something to socket w
Touched(w) == \E i \in DOMAIN trace : trace[i].sock = w
\* the last call opened socket w: it asked the system for a descriptor
Opened(w) == Happened("socket", w)
\* a step from the caller's side into a returned call of op
Calls(op) == last.op = "none" /\ last'.op = op

(***************************************************************************)
(* Properties.                                                             *)
(***************************************************************************)

\* C1: after initialize() has returned on a fully configured connection,
\* connected() is true only if during that call the banner was received and
\* 'timestamping 2' was acknowledged.
C1_BannerGating ==
    (/\ last.op = "initialize"
     /\ last.exc = "none"
     /\ HostAndPortSet(data) /\ HostAndPortSet(cmd)
     /\ connected)
    => (Matched("banner") /\ Matched("ack"))

\* C2: for every sequence of setter, initialize, sendBreak and disconnect
\* calls the command socket is not held open between the calls:
\* commandConnected() is false whenever one of them has returned.
C2_CommandSocketNotHeldOpen == ~commandConnected

\* C2 witness: a sendBreak() that opened the command socket, was acknowledged
\* and has returned.
C2_Witness ==
    /\ last.op = "sendBreak" /\ last.ret
    /\ \E i \in DOMAIN trace : Is(trace[i], "connect", "cmd") /\ trace[i].ok
    /\ ~commandConnected

\* C3 as stated: setTimestampBinaryOn() called with the command socket closed
\* opens the command socket, sends 'timestamping 2' and closes the socket
\* after the acknowledgement was read.
C3_OpensOnDemand ==
    [][(last'.op = "setTimestampBinaryOn" /\ ~commandConnected)
       => /\ \E i, j, k \in DOMAIN trace' :
               /\ i < j /\ j < k
               /\ Is(trace'[i], "connect", "cmd") /\ trace'[i].ok
               /\ IsStep(trace'[j], "write", "timestamping") /\ trace'[j].ok
               /\ Is(trace'[k], "close", "cmd")
          /\ ~commandConnected']_vars

\* C3 amended: setTimestampBinaryOn() neither opens nor closes the command
\* socket; called with the command socket closed it sends nothing and does
\* not succeed, and commandConnected() is false before and after the call.
C3_UsesTheCallersSocket ==
    [][last'.op = "setTimestampBinaryOn"
       => /\ \A i \in DOMAIN trace' : trace'[i].e \in DialogueSteps
          /\ ~commandConnected
               => /\ \A i \in DOMAIN trace' : ~trace'[i].ok
                  /\ ~last'.ret
                  /\ ~commandConnected']_vars

\* C3 witness: setTimestampBinaryOn() has been called with the command socket
\* closed and has failed at the write.
C3_Witness ==
    /\ last.op = "setTimestampBinaryOn" /\ ~last.ret
    /\ Len(trace) = 1
    /\ IsStep(trace[1], "write", "timestamping") /\ ~trace[1].up
    /\ ~commandConnected

\* C4: in the handshake of initialize() every step of the dialogue (banner
\* read, write of 'timestamping 2', echo read, acknowledgement read) begins
\* with the command socket open, and initialize() disconnects the command
\* socket only after the last step of the dialogue, never between two steps.
C4_HandshakeKeepsSocketOpen ==
    last.op = "initialize"
    => /\ \A i \in DOMAIN trace :
            (trace[i].sock = "cmd" /\ trace[i].e \in DialogueSteps) => trace[i].up
       /\ \A i, j \in DOMAIN trace :
            (Is(trace[i], "close", "cmd") /\ trace[j].sock = "cmd" /\ j # i) => j < i
       /\ (Happened("connect", "cmd") /\ last.exc = "none") => ~commandConnected

\* C4 witness: an initialize() whose handshake went through the
\* acknowledgement and then closed the command socket.
C4_Witness ==
    /\ last.op = "initialize"
    /\ Matched("banner") /\ Matched("echo") /\ Matched("ack")
    /\ Is(trace[Len(trace)], "close", "cmd")

\* C5: sendBreak, setTimestampBinaryOn, sendCommand, initializeCommandSocket,
\* setCommandPort and setCommandHost leave the data socket as it was: its
\* connected state, host, port and descriptor.
C5_DataSocketUntouched ==
    [][last'.op \in CommandOps => data' = data]_vars

\* C5 witness: a command dialogue has run to the end while the data socket
\* was connected.
C5_Witness ==
    /\ last.op = "sendBreak" /\ last.ret
    /\ dataConnected

\* C6: readCommandResponse(expected) returns success exactly when the first
\* |expected| bytes accumulated over its polls equal expected, however the
\* peer splits the bytes over the polls.
C6_SuccessIffPrefixMatches ==
    (rdOut.done /\ Len(rdIn.expected) > 0)
    => (rdOut.ok <=> /\ Len(rdOut.acc) >= Len(rdIn.expected)
                     /\ SubSeq(rdOut.acc, 1, Len(rdIn.expected)) = rdIn.expected)

\* C7: a command is written at most once per call, and the call returns
\* false when its write fails, its echo is not matched or its
\* acknowledgement is not matched.
C7_NoRetransmission ==
    last.op \in {"sendCommand", "setTimestampBinaryOn", "sendBreak"}
    => /\ \A c \in {"timestamping", "break"} :
            Cardinality({i \in DOMAIN trace : IsStep(trace[i], "write", c)}) <= 1
       /\ LET own == IF last.op = "setTimestampBinaryOn" THEN "timestamping" ELSE "break"
              sent == {i \in DOMAIN trace : IsStep(trace[i], "write", own)}
          IN last.ret
             => /\ last.exc = "none"
                /\ \E i \in sent :
                     /\ trace[i].ok
                     /\ \A j \in DOMAIN trace : j > i => trace[j].ok
                     /\ \E j \in DOMAIN trace :
                          j > i /\ IsStep(trace[j], "read", "echo")
                     /\ last.op # "sendCommand"
                          => \E j \in DOMAIN trace :
                               j > i /\ IsStep(trace[j], "read", "ack")

\* C7 witness: a sendBreak() whose break command was written once, was not
\* echoed, and which returned false.
C7_Witness ==
    /\ last.op = "sendBreak" /\ ~last.ret
    /\ \E i, j \in DOMAIN trace :
         /\ i < j
         /\ IsStep(trace[i], "write", "break") /\ trace[i].ok
         /\ IsStep(trace[j], "read", "echo") /\ ~trace[j].ok

\* C8: setDataPort / setDataHost with a new value on a connected data socket
\* first closes the existing descriptor, then re-initializes and ends
\* connected; two descriptors of the data socket are never open together.
C8_ReconfigureClosesFirst ==
    (/\ last.op \in {"setDataPort", "setDataHost"}
     /\ last.exc = "none"
     /\ Happened("socket", "data"))
    => /\ \E i, j \in DOMAIN trace :
            i < j /\ Is(trace[i], "close", "data") /\ Is(trace[j], "socket", "data")
       /\ connected
       /\ Cardinality(fds \ {cmd.fd}) <= 1

\* C9: a setter called while its socket is not connected, or with the value
\* the socket already has, records the value and does nothing else: no
\* socket is created, no connect issued, no connected flag changes.
C9_SetterOnlyRecords ==
    [][/\ (last'.op = "setDataPort" /\ (~data.connected \/ last'.arg = data.port))
          => /\ trace' = << >> /\ last'.exc = "none"
             /\ data' = [data EXCEPT !.port = last'.arg]
             /\ cmd' = cmd /\ fds' = fds
       /\ (last'.op = "setDataHost" /\ (~data.connected \/ last'.host = data.host))
          => /\ trace' = << >> /\ last'.exc = "none"
             /\ data' = [data EXCEPT !.host = last'.host]
             /\ cmd' = cmd /\ fds' = fds
       /\ (last'.op = "setCommandPort" /\ (~cmd.connected \/ last'.arg = cmd.port))
          => /\ trace' = << >> /\ last'.exc = "none"
             /\ cmd' = [cmd EXCEPT !.port = last'.arg]
             /\ data' = data /\ fds' = fds
       /\ (last'.op = "setCommandHost" /\ (~cmd.connected \/ last'.host = cmd.host))
          => /\ trace' = << >> /\ last'.exc = "none"
             /\ cmd' = [cmd EXCEPT !.host = last'.host]
             /\ data' = data /\ fds' = fds]_vars

\* C9 witness: setDataPort() has been called on a connected data socket with
\* the port it already had.
C9_Witness ==
    /\ last.op = "setDataPort" /\ last.exc = "none"
    /\ dataConnected /\ trace = << >>
    /\ data.port = last.arg /\ data.port > 0

\* C10: dataConfigured() is true exactly when the data host is not empty and
\* the data port is greater than 0, likewise commandConfigured(); both are
\* false on a new connection; setting a data field leaves
\* commandConfigured() as it was and setting a command field leaves
\* dataConfigured() as it was.
C10_Configured ==
    /\ [](/\ dataConfigured <=> (data.host # "" /\ data.port > 0)
          /\ commandConfigured <=> (cmd.host # "" /\ cmd.port > 0)
          /\ (data = NewSocket /\ cmd = NewSocket)
               => (~dataConfigured /\ ~commandConfigured))
    /\ [][/\ last'.op \in {"setDataPort", "setDataHost"}
             => (isConfigured(cmd') <=> isConfigured(cmd))
          /\ last'.op \in {"setCommandPort", "setCommandHost"}
             => (isConfigured(data') <=> isConfigured(data))]_vars

\* C10 witness: the data socket is configured and the command socket has
\* only its port set.
C10_Witness ==
    /\ dataConfigured /\ ~commandConfigured
    /\ cmd.port > 0 /\ cmd.host = ""

\* C11 as stated: initialize() on a connection whose data socket or command
\* socket is not configured creates no socket, issues no connect, runs no
\* dialogue, raises no error and leaves dataConnected() and
\* commandConnected() false; sockets are created only when both are
\* configured.
C11_UnconfiguredLeavesDisconnected ==
    /\ [][(last'.op = "initialize" /\ ~(dataConfigured /\ commandConfigured))
            => /\ trace' = << >> /\ last'.exc = "none" /\ fds' = fds
               /\ ~data'.connected /\ ~cmd'.connected]_vars
    /\ []((last.op = "initialize" /\ \E i \in DOMAIN trace : trace[i].e = "socket")
            => (dataConfigured /\ commandConfigured))

\* C11 amended: initialize() on a connection whose data socket or command
\* socket is not configured creates no socket, issues no connect, runs no
\* dialogue, raises no error and leaves both sockets as they were (a socket
\* that was connected stays connected); sockets are created only when both
\* are configured.
C11_UnconfiguredDoesNothing ==
    /\ [][(last'.op = "initialize" /\ ~(dataConfigured /\ commandConfigured))
            => /\ trace' = << >> /\ last'.exc = "none" /\ fds' = fds
               /\ data' = data /\ cmd' = cmd /\ tsOn' = tsOn]_vars
    /\ []((last.op = "initialize" /\ \E i \in DOMAIN trace : trace[i].e = "socket")
            => (dataConfigured /\ commandConfigured))

\* C11 witness: initialize() has returned on a connection whose data socket
\* is configured and connected and whose command socket is not configured.
C11_Witness ==
    /\ last.op = "initialize" /\ last.exc = "none" /\ trace = << >>
    /\ dataConfigured /\ ~commandConfigured
    /\ dataConnected

\* C12: dataInitialized() and commandInitialized() are true after
\* initialize() has been called on a fully configured connection, are false
\* on a new connection, and turn true only by a call of initialize(): a
\* configured connection on which initialize() was never called reports
\* false.
C12_InitializedReportsInitialize ==
    /\ (~dataInitialized /\ ~commandInitialized)
    /\ []((last.op = "initialize" /\ dataConfigured /\ commandConfigured)
            => (dataInitialized /\ commandInitialized))
    /\ [][/\ (dataInitialized' /\ ~dataInitialized) => last'.op = "initialize"
          /\ (commandInitialized' /\ ~commandInitialized)
               => last'.op = "initialize"]_vars

\* every connect attempt of the call was answered by an error other than
\* EINPROGRESS (none was issued when the host did not resolve)
NoConnectAnswered(tr) ==
    \A i \in DOMAIN tr : tr[i].e = "connect" => tr[i].what = "error"

\* C13: initialize() on a fully configured connection with neither socket
\* connected, against an instrument that cannot be reached (the host does
\* not resolve or the connect attempt fails), leaves dataConnected() and
\* commandConnected() false.
C13_UnreachableStaysDisconnected ==
    [][(/\ last'.op = "initialize"
        /\ dataConfigured /\ commandConfigured
        /\ ~dataConnected /\ ~commandConnected
        /\ NoConnectAnswered(trace'))
       => (~data'.connected /\ ~cmd'.connected)]_vars

\* C13 witness: initialize() has tried to connect the data socket, the
\* connect was refused, and the call has left with SocketConnectFailure.
C13_Witness ==
    /\ last.op = "initialize" /\ last.exc = "SocketConnectFailure"
    /\ \E i \in DOMAIN trace : Is(trace[i], "connect", "data") /\ trace[i].what = "error"
    /\ ~dataConnected /\ ~commandConnected

\* C14: connected() equals dataConnected() in every reachable state,
\* whether or not the command socket is connected.
C14_ConnectedIsDataConnected == connected <=> dataConnected

\* C14 witness: the command socket is connected, the data socket is not.
C14_Witness == commandConnected /\ ~dataConnected /\ ~connected

\* C15: when disconnect() has returned, dataConnected() and
\* commandConnected() are both false, whatever the state before the call.
C15_DisconnectClosesBoth ==
    last.op = "disconnect" => (~dataConnected /\ ~commandConnected)

Sock(w) == IF w = "data" THEN data ELSE cmd
SetupErrors == {"SocketMissingConfig", "SocketCreateFailure",
                "SocketHostFailure", "SocketConnectFailure"}
\* the last event of the call, when there is one
LastEvent == trace[Len(trace)]
\* the socket whose TCPCommSocket::initialize() raised the error the last
\* call left with: the one of the last system call, or, when the error came
\* before any system call, the socket the operation works on
FailedSocket ==
    IF trace # << >> THEN LastEvent.sock
    ELSE IF last.op \in CommandOps THEN "cmd" ELSE "data"

\* C16: every connect is issued on a descriptor that was put into
\* non-blocking mode before: in the trace of a call each connect event is
\* preceded by the O_NONBLOCK event of the same descriptor.
C16_NonBlockingBeforeConnect ==
    \A j \in DOMAIN trace :
        trace[j].e = "connect"
        => \E i \in DOMAIN trace :
              /\ i < j /\ trace[i].e = "nonblock"
              /\ trace[i].sock = trace[j].sock /\ trace[i].n = trace[j].n

\* C17: a socket reports connected only when the kernel has confirmed its
\* connect: after an initialize() whose connect returned EINPROGRESS the
\* socket is not connected.
C17_ReadyOnlyWhenConfirmed ==
    \A w \in {"data", "cmd"} : Sock(w).connected => Sock(w).link

\* C18: a call that leaves TCPCommSocket::initialize() with an error leaves
\* with SocketMissingConfig before any socket is created when host or port
\* is missing, with SocketCreateFailure when socket() failed, with
\* SocketHostFailure when the host did not resolve, with
\* SocketConnectFailure when connect failed with an error other than
\* EINPROGRESS, and the failing initialize() has not marked the socket
\* connected.
C18_SetupErrors ==
    /\ last.exc \in SetupErrors \cup {"none"}
    /\ (last.op \in {"setDataPort", "setDataHost", "setCommandPort", "setCommandHost",
                      "initializeDataSocket"} /\ last.exc = "SocketMissingConfig")
          => trace = << >>
    /\ (trace # << >> /\ LastEvent.e = "socket" /\ ~LastEvent.ok)
          => last.exc = "SocketCreateFailure"
    /\ (trace # << >> /\ LastEvent.e = "socket" /\ LastEvent.ok)
          => last.exc = "SocketHostFailure"
    /\ (trace # << >> /\ LastEvent.e = "connect")
          => (last.exc = "SocketConnectFailure" /\ LastEvent.what = "error")
    /\ (last.exc \in SetupErrors /\ trace # << >>)
          => Sock(LastEvent.sock).connected = LastEvent.up

\* C19: no descriptor is left open without an owner: when a call has left
\* initialize() with SocketHostFailure or SocketConnectFailure the
\* descriptor created by that initialize() is closed, and every open
\* descriptor is the current descriptor of the data or the command socket.
C19_DescriptorsReleased ==
    /\ (last.exc \in {"SocketHostFailure", "SocketConnectFailure"} /\ trace # << >>)
          => LastEvent.n \notin fds
    /\ fds \subseteq {data.fd, cmd.fd}

\* C20: the numeric value of each PacketType, as stored in a packet built
\* with it and carried in the type byte of the header, is UNKNOWN = 0,
\* DATA_FROM_INSTRUMENT = 1, DATA_FROM_DRIVER = 2, PORT_AGENT_COMMAND = 3,
\* PORT_AGENT_STATUS = 4, PORT_AGENT_FAULT = 5, INSTRUMENT_COMMAND = 6,
\* PORT_AGENT_HEARTBEAT = 7, DATA_FROM_RSN = 8.
C20_PacketTypeValues ==
    pk.done
    => LET v == IF pk.obj.exc = "none" THEN pk.obj.type ELSE PacketType(pk.typ) IN
       /\ pk.typ = "UNKNOWN" => v = 0
       /\ pk.typ = "DATA_FROM_INSTRUMENT" => v = 1
       /\ pk.typ = "DATA_FROM_DRIVER" => v = 2
       /\ pk.typ = "PORT_AGENT_COMMAND" => v = 3
       /\ pk.typ = "PORT_AGENT_STATUS" => v = 4
       /\ pk.typ = "PORT_AGENT_FAULT" => v = 5
       /\ pk.typ = "INSTRUMENT_COMMAND" => v = 6
       /\ pk.typ = "PORT_AGENT_HEARTBEAT" => v = 7
       /\ pk.typ = "DATA_FROM_RSN" => v = 8

\* C21: constructing an RSNPacket with type UNKNOWN fails with
\* PacketParamOutOfRange and builds no packet; with every other defined type
\* the construction succeeds and the packet has that type.
C21_UnknownTypeRejected ==
    pk.done
    => /\ pk.typ = "UNKNOWN"
            => (pk.obj.exc = "PacketParamOutOfRange" /\ pk.obj.null /\ pk.obj.size = 0)
       /\ pk.typ # "UNKNOWN"
            => (pk.obj.exc = "none" /\ pk.obj.type = PacketType(pk.typ))

\* C21 witness: a construction with UNKNOWN has been refused.
C21_Witness ==
    pk.done /\ pk.typ = "UNKNOWN" /\ pk.obj.exc = "PacketParamOutOfRange"

\* C22: a constructed RSN packet yields through packet() exactly the bytes
\* of the blob it was built from and through packetSize() their number; a
\* packet made from it by copy construction or by assignment yields the same
\* bytes and size; no operation changes the bytes of a constructed packet.
C22_ForwardedUnchanged ==
    Built
    => /\ ~pk.obj.null /\ packet(pk.obj) = pk.blob
       /\ packetSize(pk.obj) = Len(pk.blob)
       /\ pk.op \in {"copy", "assign"}
            => (packet(pk.cpy) = pk.blob /\ packetSize(pk.cpy) = Len(pk.blob))

\* C23: every constructed packet has 16 <= packetSize() <= 65535, and
\* payloadSize() is packetSize() - 16, not wrapped around.
C23_SizeAtLeastHeader ==
    Built
    => /\ HEADER_SIZE <= packetSize(pk.obj) /\ packetSize(pk.obj) <= 65535
       /\ payloadSize(pk.obj) = packetSize(pk.obj) - HEADER_SIZE

\* C24: the ASCII projection of a packet, by RSNPacket::asAscii and by
\* Packet::asAscii, is '<port_agent_packet type="NAME" time="...">', the
\* payload bytes from offset 16 to packetSize - 1, '</port_agent_packet>',
\* CR, LF, where NAME names the type of the packet.
C24_AsciiProjection ==
    (Built /\ pk.op = "asAscii")
    => \A a \in {pk.rsnAscii, pk.baseAscii} :
          /\ a.label = "port_agent_packet"
          /\ a.type = pk.typ
          /\ a.time
          /\ a.body = SubSeq(pk.blob, HEADER_SIZE + 1, Len(pk.blob))
          /\ a.eol = <<13, 10>>

\* C25: the InstrumentCommand publisher writes the packet to its sink
\* exactly when the type of the packet is INSTRUMENT_COMMAND; for every
\* other type it returns success and writes nothing.
C25_OnlyInstrumentCommandWritten ==
    pub.done
    => /\ pub.type = PacketType("INSTRUMENT_COMMAND") => pub.writes = <<pub.bytes>>
       /\ pub.type # PacketType("INSTRUMENT_COMMAND")
            => (pub.writes = << >> /\ pub.ret)

\* C25 witness: a DATA_FROM_INSTRUMENT packet was published to a sink that
\* cannot be written and the publisher returned success.
C25_Witness ==
    /\ pub.done /\ pub.type = PacketType("DATA_FROM_INSTRUMENT")
    /\ pub.sink = "fail" /\ pub.ret /\ pub.writes = << >>

\* C27: readCommandResponse() always terminates: whatever the peer does,
\* each call makes at least one and at most 30 polls of the command socket
\* and then returns; the remaining-poll counter goes down by exactly one
\* per poll and never below 0.
C27_OneToThirtyPolls ==
    rdOut.done
    => /\ ~rdOut.crashed
       /\ 1 <= rdOut.reads /\ rdOut.reads <= PollBudget
       /\ rdOut.reads = rdOut.polls
       /\ \A i \in 1..rdOut.polls :
            rdOut.left[i + 1] = rdOut.left[i] - 1 /\ rdOut.left[i + 1] >= 0

\* C28: readCommandResponse() never reads past its 1000-byte buffer: on
\* every poll the offset (bytes accumulated so far) plus the number of bytes
\* requested (the length of the expected string) is at most 1000, and no
\* byte is stored beyond the buffer.
C28_ReadsStayInBuffer ==
    rdOut.done => (rdOut.reach <= BufSize /\ ~rdOut.overrun)

\* C29: readCommandResponse() with an empty expected string returns failure
\* without polling or reading the command socket.
C29_EmptyExpectedFails ==
    (rdOut.done /\ rdIn.expected = << >>)
    => (~rdOut.ok /\ rdOut.reads = 0 /\ rdOut.polls = 0 /\ rdOut.acc = << >>)

\* C29 witness: the call was made with an empty expected string while the
\* peer had bytes to deliver at the first poll.
C29_Witness ==
    /\ rdOut.done /\ rdIn.expected = << >>
    /\ ChunkAt(rdIn.script, 1) # << >> /\ ~rdOut.ok

\* C26: a single initialize() call and a single sendBreak() call each make
\* at most 30 polls of the command socket in total before returning.
C26_OneWindowPerCall ==
    last.op \in {"initialize", "sendBreak"} => Polls(trace) <= PollBudget

\* C26 (amended): the caller is stalled for at most 30 polls per awaited
\* response; initialize() awaits at most three responses and sendBreak()
\* at most five, so they make at most 90 and 150 polls in total.
C26_OneWindowPerResponse ==
    last.op \in {"initialize", "sendBreak"}
    => /\ \A i \in Waits(trace) : trace[i].n <= PollBudget
       /\ Cardinality(Waits(trace)) <= MaxWaits(last.op)
       /\ Polls(trace) <= MaxWaits(last.op) * PollBudget

\* C26 witness: a sendBreak() that awaited five responses and made more
\* than 30 polls.
C26_Witness ==
    /\ last.op = "sendBreak"
    /\ Cardinality(Waits(trace)) = 5
    /\ Polls(trace) > PollBudget

\* C30: in initializeCommandSocket() 'timestamping 2' is written only after
\* the banner was matched; an acknowledgement is awaited only after the
\* command was written successfully and its echo matched; when the banner
\* is not matched the call writes nothing to the command socket.
C30_DialogueOrder ==
    last.op \in {"initializeCommandSocket", "initialize", "sendBreak"}
    => /\ \A i \in DOMAIN trace :
            IsStep(trace[i], "write", "timestamping")
            => \E j \in 1..(i - 1) : IsStep(trace[j], "read", "banner") /\ trace[j].ok
       /\ \A i \in DOMAIN trace :
            IsStep(trace[i], "read", "ack")
            => \E j \in 1..(i - 1) : \E k \in (j + 1)..(i - 1) :
                  /\ Is(trace[j], "write", "cmd") /\ trace[j].ok
                  /\ IsStep(trace[k], "read", "echo") /\ trace[k].ok
                  /\ \A l \in (j + 1)..(i - 1) : ~Is(trace[l], "write", "cmd")
       /\ ~Matched("banner")
            => /\ \A i \in DOMAIN trace : ~IsStep(trace[i], "write", "timestamping")
               /\ last.op # "sendBreak" => ~Happened("write", "cmd")

\* C30 witness: an initializeCommandSocket() that went through the whole
\* dialogue: banner matched, command written, echo matched, acknowledgement
\* matched.
C30_Witness ==
    /\ last.op = "initializeCommandSocket"
    /\ Matched("banner") /\ Matched("echo") /\ Matched("ack")

\* C31: sendBreak(d) returns true exactly when 'break d' was written, its
\* echo was read back and the acknowledgement for d was then read, in that
\* order; in every other case it returns false.
C31_BreakReturnsDialogueOutcome ==
    last.op = "sendBreak"
    => /\ (last.exc = "none" /\ last.ret) <=> Dialogue("break")
       /\ ~Dialogue("break") => (last.exc = "none" /\ ~last.ret)

\* C31 (amended): sendBreak(d) returns true exactly when 'break d' was
\* written, its echo matched and the acknowledgement for d then matched;
\* otherwise it returns false, or it leaves with the setup error raised by
\* the initialization of the command socket, having written nothing.
C31_BreakReturnsOrRaises ==
    last.op = "sendBreak"
    => /\ (last.exc = "none" /\ last.ret) <=> Dialogue("break")
       /\ last.exc # "none"
            => (last.exc \in SetupErrors /\ ~last.ret /\ ~Happened("write", "cmd"))

\* C31 witness: a sendBreak() that returned true after the whole break
\* dialogue.
C31_Witness ==
    last.op = "sendBreak" /\ last.exc = "none" /\ last.ret /\ Dialogue("break")

\* C32: sendBreak() writes the break command only when the initialization
\* of the command socket in the same call succeeded; when it failed,
\* sendBreak() returns false without writing the break command.
C32_BreakOnlyAfterInitialization ==
    (last.op = "sendBreak" /\ ~CommandSocketInitialized)
    => /\ \A i \in DOMAIN trace : ~IsStep(trace[i], "write", "break")
       /\ last.exc = "none" => ~last.ret

\* C33: isTimestampBinaryOn() is false on a new connection; after a call
\* that ran initializeCommandSocket() it tells whether that run matched the
\* banner and had 'timestamping 2' echoed and acknowledged; no other call
\* changes it.
C33_TimestampFlagFollowsInitialization ==
    /\ isTimestampBinaryOn = FALSE
    /\ [][(last.op = "none" /\ last'.op # "none")
            => IF RanInitializeCommandSocket'
               THEN isTimestampBinaryOn' = CommandSocketInitialized'
               ELSE isTimestampBinaryOn' = isTimestampBinaryOn]_vars

\* C34: initialize() called while dataConnected() is true creates no data
\* socket and issues no data connect, and runs the command handshake
\* (open, banner, timestamping, close) again on each call.
C34_ReinitializeRunsHandshake ==
    [][(Calls("initialize") /\ dataConnected)
        => /\ ~Touched("data")' /\ data' = data
           /\ Opened("cmd")']_vars

\* C34 (amended): initialize() called while dataConnected() is true leaves
\* the data socket alone; it runs the command handshake exactly when both
\* sockets are configured and the command socket is not connected at the
\* call, and a handshake that raised no error awaited the banner and left
\* the command socket closed.
C34_ReinitializeLeavesDataSocket ==
    [][(Calls("initialize") /\ dataConnected)
        => /\ ~Touched("data")' /\ data' = data
           /\ Opened("cmd")' <=> (dataConfigured /\ commandConfigured
                                    /\ ~commandConnected)
           /\ ~Opened("cmd")' => (cmd' = cmd /\ trace' = << >>)
           /\ (Opened("cmd")' /\ last'.exc = "none")
                => (\E i \in DOMAIN trace' : IsStep(trace'[i], "read", "banner"))
                   /\ ~commandConnected']_vars

\* C34 witness: an initialize() on a connection whose data socket was
\* connected already: nothing was done to the data socket and the whole
\* command handshake was run and closed.
C34_Witness ==
    /\ last.op = "initialize" /\ dataConnected /\ ~Touched("data")
    /\ CommandSocketInitialized
    /\ LastEvent.e = "close" /\ LastEvent.sock = "cmd"

\* C35: initialize() opens the command socket only when the data socket
\* initialization of the same call completed without error or the data
\* socket was connected already; when the data socket initialization
\* raises a setup error the command socket is untouched and not connected.
C35_DataBeforeCommand ==
    [][Calls("initialize")
        => /\ Opened("cmd")'
                => \/ dataConnected /\ ~Touched("data")'
                   \/ /\ dataConnected' /\ trace'[1].sock = "data"
                      /\ \A i \in DOMAIN trace' : \A j \in DOMAIN trace' :
                            (trace'[i].sock = "data" /\ trace'[j].sock = "cmd") => i < j
           /\ (last'.exc # "none" /\ ~Touched("cmd")')
                => (cmd' = cmd /\ ~commandConnected')]_vars

\* C35 (amended): the same order; when the data socket initialization
\* raises a setup error the command socket is left exactly as it was
\* before the call, connected if it was connected.
C35_DataErrorLeavesCommandSocket ==
    [][Calls("initialize")
        => /\ Opened("cmd")'
                => \/ dataConnected /\ ~Touched("data")'
                   \/ /\ dataConnected' /\ trace'[1].sock = "data"
                      /\ \A i \in DOMAIN trace' : \A j \in DOMAIN trace' :
                            (trace'[i].sock = "data" /\ trace'[j].sock = "cmd") => i < j
           /\ (last'.exc # "none" /\ ~Touched("cmd")')
                => (cmd' = cmd /\ last'.exc \in SetupErrors /\ Opened("data")'
                    /\ ~dataConnected')]_vars

\* C35 witness: an initialize() whose data socket initialization raised a
\* setup error: the command socket was not opened and is not connected.
C35_Witness ==
    /\ last.op = "initialize" /\ last.exc \in SetupErrors
    /\ Opened("data") /\ ~Touched("cmd") /\ ~commandConnected /\ commandConfigured

\* C36: in every reachable state connected() implies dataConfigured(): no
\* sequence of setters, initialize() and disconnect() calls leaves the
\* connection reporting connected while the data host is empty or the data
\* port is 0.
C36_ConnectedImpliesConfigured == connected => dataConfigured

\* C37: whenever TCPCommSocket::initialize() leaves with a setup error the
\* socket it was called on reports connected() = false afterwards, also
\* when the call was the re-initialization made by a setter on a connected
\* socket.
C37_SetupErrorMeansDisconnected ==
    last.exc \in SetupErrors => ~Sock(FailedSocket).connected

\* C38: the type and the size seen through the Packet interface are the
\* ones given at construction: for an RSNPacket built with type T and size
\* n, packetType() is T and the Packet-level size is n.
C38_PacketInterfaceSeesConstruction ==
    pk.view.done
    => /\ pk.view.type = PacketType(pk.typ)
       /\ pk.view.size = Len(pk.blob)

\* C39: typeToString() returns the enumerator's own name for every defined
\* PacketType and 'OUT_OF_RANGE' only for values outside the enumeration.
C39_TypeToStringNamesEveryType ==
    pk.tts.done
    => IF pk.tts.arg + 1 \in DOMAIN PacketTypeNames
       THEN pk.tts.name = PacketTypeNames[pk.tts.arg + 1]
       ELSE pk.tts.name = "OUT_OF_RANGE"

\* C40: copying an RSN connection (copy constructor or assignment) carries
\* over the configuration and never a live link: the copy has the hosts and
\* ports of the original, the same dataConfigured() / commandConfigured()
\* and the same isTimestampBinaryOn(); it takes neither connected flag nor
\* descriptor from the original; the original is left as it was.
C40_CopyPreservesConfiguration ==
    [][(last.op = "none" /\ last'.op \in {"copyConstruct", "assign"})
        => /\ UNCHANGED <<data, cmd, tsOn, fds, rx>>
           /\ \A w \in {"data", "cmd"} :
                LET c == GetSock(other'.obj, w)
                    b == GetSock(other'.before, w)
                    o == Sock(w)
                IN /\ c.host = o.host /\ c.port = o.port
                   /\ isConfigured(c) = isConfigured(o)
                   /\ c.connected = b.connected /\ c.fd = b.fd /\ c.link = b.link
                   /\ other'.op = "construct" => (~c.connected /\ c.fd = 0)
           /\ other'.obj.ts = isTimestampBinaryOn]_vars

\* C40 witness: a copy constructed from a connection that is connected and
\* has binary timestamping on: the copy has the configuration and the flag
\* and is not connected.
C40_Witness ==
    /\ last.op = "copyConstruct" /\ connected /\ isTimestampBinaryOn
    /\ other.obj.data.host = data.host /\ other.obj.data.port = data.port
    /\ other.obj.ts /\ ~other.obj.data.connected

====
